---- MODULE Spec2Model ----
(***************************************************************************)
(* Model of the knowledge-base ingestion and retrieval pipeline            *)
(* (Rust/knowledge-base): FileIngester::compute_sha256, TextChunker,       *)
(* EmbeddingClient, KnowledgeBaseDb and IngestPipeline, and of the         *)
(* database lifecycle functions of Rust/pg-toolkit (admin.rs).             *)
(*                                                                         *)
(* Every `.await` on a collaborator (PostgreSQL through the sqlx pool, the *)
(* embedding server through reqwest) is one atomic step of a call; the     *)
(* synchronous code between two awaits belongs to the step of the await    *)
(* that precedes it.  Every statement sent through the pool is its own     *)
(* transaction (the pipeline opens none).                                  *)
(***************************************************************************)
EXTENDS Integers, Sequences, FiniteSets, TLC

\* ------------------------------------------------------------------ bounds

\* Number of pipeline calls (ingest_text / search) issued in one behaviour.
\* The calls are numbered in the order in which they start.
MaxCalls == 2

\* TextChunker::default() is new(500, 50); the pipeline is checked with a
\* chunker scaled down to windows of ChunkSize characters sharing Overlap.
ChunkSize == 3
Overlap == 1

\* The number of rows one scan of the HNSW index visits (hnsw.ef_search of
\* pgvector, 40 unless set), scaled down like the chunker.
EfSearch == 2

\* The chunker on its own is checked with every configuration new() accepts
\* up to windows of MaxChunkSize characters, on every text of up to
\* MaxTextLen characters.
MaxChunkSize == 3
MaxTextLen == 6

\* The longest identifier PostgreSQL keeps (NAMEDATALEN - 1 = 63 bytes),
\* scaled down.
MaxIdentifierLen == 2

\* ------------------------------------------------------------------ text

WS == " "

Min(a, b) == IF a < b THEN a ELSE b

\* n copies of the character c.
Rep(c, n) == [i \in 1..n |-> c]

IsWhitespace(c) == c = WS

\* str::trim: drop leading and trailing whitespace.
RECURSIVE TrimStart(_)
TrimStart(s) ==
    IF s # <<>> /\ IsWhitespace(Head(s)) THEN TrimStart(Tail(s)) ELSE s

RECURSIVE TrimEnd(_)
TrimEnd(s) ==
    IF s # <<>> /\ IsWhitespace(s[Len(s)])
    THEN TrimEnd(SubSeq(s, 1, Len(s) - 1))
    ELSE s

\* Mutant: nothing is trimmed.
Trim_nothing(s) == s

Trim(s) == TrimEnd(TrimStart(s))

\* The window chars[start..end] of Rust (0-based, end exclusive).
Window(chars, start, end) == SubSeq(chars, start + 1, end)

\* Mutant: the window is one character wider than chunk_size.
RECURSIVE ChunkLoop_wide(_, _, _, _, _)
ChunkLoop_wide(chars, chunk_size, step, start, chunks) ==
    LET text_len == Len(chars) IN
    IF ~(start < text_len) THEN chunks
    ELSE LET end == Min(start + chunk_size + 1, text_len)
             chunk == Trim(Window(chars, start, end))
             pushed == IF chunk # <<>> THEN Append(chunks, chunk) ELSE chunks
         IN  IF end = text_len THEN pushed
             ELSE ChunkLoop_wide(chars, chunk_size, step, start + step, pushed)

\* Mutant: after a window that trims to empty the cursor skips the overlap.
RECURSIVE ChunkLoop_skipping(_, _, _, _, _)
ChunkLoop_skipping(chars, chunk_size, step, start, chunks) ==
    LET text_len == Len(chars) IN
    IF ~(start < text_len) THEN chunks
    ELSE LET end == Min(start + chunk_size, text_len)
             chunk == Trim(Window(chars, start, end))
             pushed == IF chunk # <<>> THEN Append(chunks, chunk) ELSE chunks
         IN  IF end = text_len THEN pushed
             ELSE ChunkLoop_skipping(chars, chunk_size, step,
                     start + (IF chunk # <<>> THEN step ELSE chunk_size),
                     pushed)

\* The while loop of TextChunker::chunk_text, from cursor `start` on.
RECURSIVE ChunkLoop(_, _, _, _, _)
ChunkLoop(chars, chunk_size, step, start, chunks) ==
    LET text_len == Len(chars) IN
    IF ~(start < text_len) THEN chunks
    ELSE LET end == Min(start + chunk_size, text_len)
             chunk == Trim(Window(chars, start, end))
             pushed == IF chunk # <<>> THEN Append(chunks, chunk) ELSE chunks
         IN  IF end = text_len THEN pushed
             ELSE ChunkLoop(chars, chunk_size, step, start + step, pushed)

\* TextChunker::chunk_text of a chunker with the given configuration.
chunk_text(chunk_size, overlap, text) ==
    IF text = <<>> THEN <<>>
    ELSE ChunkLoop(text, chunk_size, chunk_size - overlap, 0, <<>>)

\* Mutant: the cursor advances past the end of the window it has taken.
RECURSIVE WindowLoop_gapped(_, _, _, _, _)
WindowLoop_gapped(text_len, chunk_size, step, start, windows) ==
    IF ~(start < text_len) THEN windows
    ELSE LET end == Min(start + chunk_size, text_len)
             taken == Append(windows, [start |-> start, end |-> end])
         IN  IF end = text_len THEN taken
             ELSE WindowLoop_gapped(text_len, chunk_size, step,
                                    start + chunk_size + 1, taken)

\* Mutant: the loop does not stop at the window that ends the text; it runs
\* until the cursor has left the text.
RECURSIVE WindowLoop_trailing(_, _, _, _, _)
WindowLoop_trailing(text_len, chunk_size, step, start, windows) ==
    IF ~(start < text_len) THEN windows
    ELSE LET end == Min(start + chunk_size, text_len)
             taken == Append(windows, [start |-> start, end |-> end])
         IN  WindowLoop_trailing(text_len, chunk_size, step, start + step,
                                 taken)

\* The windows [start, end) the while loop of chunk_text takes, in order.
RECURSIVE WindowLoop(_, _, _, _, _)
WindowLoop(text_len, chunk_size, step, start, windows) ==
    IF ~(start < text_len) THEN windows
    ELSE LET end == Min(start + chunk_size, text_len)
             taken == Append(windows, [start |-> start, end |-> end])
         IN  IF end = text_len THEN taken
             ELSE WindowLoop(text_len, chunk_size, step, start + step, taken)

\* The windows of one chunk_text call (none when the text is empty).
chunk_windows(chunk_size, overlap, text) ==
    IF text = <<>> THEN <<>>
    ELSE WindowLoop(Len(text), chunk_size, chunk_size - overlap, 0, <<>>)

\* str::len: the length of a text in bytes of its UTF-8 encoding.
Utf8Len(c) == IF c = "e_acute" THEN 2 ELSE 1

RECURSIVE ByteLen(_)
ByteLen(s) == IF s = <<>> THEN 0 ELSE Utf8Len(Head(s)) + ByteLen(Tail(s))

\* The pipeline's chunker (self.chunker).
PipelineChunks(text) == chunk_text(ChunkSize, Overlap, text)

\* FileIngester::compute_sha256.  The digest is modelled by an injective
\* positional code of the characters: equal texts and only equal texts of the
\* model get equal digests.
CharCode(c) ==
    CASE c = "a" -> 1 [] c = "b" -> 2 [] c = "c" -> 3 [] OTHER -> 4

RECURSIVE compute_sha256(_)
compute_sha256(content) ==
    IF content = <<>> THEN 0
    ELSE CharCode(Head(content)) + 5 * compute_sha256(Tail(content))

\* ------------------------------------------------------------------ inputs

Step == ChunkSize - Overlap

\* Texts handed to ingest_text.
TextEmpty == <<>>
TextBlank == <<WS>>
TextOne == <<"a">>
\* "a", blanks, "a": two windows, both trimming to "a".
TextRepeated == <<"a">> \o Rep(WS, ChunkSize - 1) \o <<"a">>
\* Three windows with three different chunk texts.
TextThree == Rep("a", ChunkSize) \o Rep("b", Step) \o <<"c">>

Texts == {TextEmpty, TextBlank, TextOne, TextRepeated, TextThree}

\* Two texts with the same two chunk texts in opposite order: "a", blanks,
\* "ba" chunks to "a", "ba"; "ba", blanks, "a" chunks to "ba", "a".
TextForward == <<"a">> \o Rep(WS, ChunkSize - 1) \o <<"b", "a">>
TextBackward == <<"b", "a">> \o Rep(WS, ChunkSize - 1) \o <<"a">>

\* A corpus with texts that share chunk texts, whose chunks all get the same
\* embedding, next to a text whose three chunks get three embeddings.
SharedTexts == {TextThree, TextForward, TextBackward}

Queries == {<<>>, <<WS>>, <<"a">>}

\* L2-normalised embedding vectors, scaled by 5 to stay in the integers.
Vectors == {<<5, 0>>, <<3, 4>>, <<0, 5>>}

\* Option<f32>: None, or Some(t) with t on the scale of Score below.
None == <<>>
Some(x) == <<x>>
Thresholds == {None, Some(20)}
Limits == {1, 2}

Calls == 1..MaxCalls

\* Database names handed to the admin functions: a short one, one of the
\* longest length the server keeps, and one a character longer.
DatabaseNames ==
    {<<"a">>, Rep("b", MaxIdentifierLen), Rep("b", MaxIdentifierLen + 1)}

AdminOps == {"create_database", "drop_database", "database_exists"}

\* Chunk lists handed to embed_document when it is called directly.
ChunkLists == {<<>>, <<<<"a">>>>, <<<<"a">>, <<"b">>>>}

\* How the server answers one HTTP request: not at all (transport failure),
\* with an error status, or with a success status.
Responses == {"transport", "status", "success"}

\* The characters of the texts the chunker is checked on: a letter, a blank
\* and a letter of two bytes.
Alphabet == {"a", WS, "e_acute"}

\* Texts handed to chunk_text.
ChunkerTexts == UNION {[1..n -> Alphabet] : n \in 0..MaxTextLen}

\* Mutant: only the first assertion of TextChunker::new is made.
NewAsserts_size_only(chunk_size, overlap) == chunk_size > 0

\* The two assertions of TextChunker::new.
NewAsserts(chunk_size, overlap) == chunk_size > 0 /\ overlap < chunk_size

\* Arguments of a TextChunker::new call that has not run yet.
ChunkerArgs ==
    [chunk_size : 0..MaxChunkSize, overlap : 0..MaxChunkSize, state : {"args"}]

\* The pipeline's chunker (IngestPipeline::chunker).
PipelineChunker ==
    [chunk_size |-> ChunkSize, overlap |-> Overlap, state |-> "built"]

\* A chunk_text call that has not run yet, on the given text.
Unchunked(text) ==
    [text |-> text, state |-> "new", windows |-> <<>>, chunks |-> <<>>]

\* ------------------------------------------------------------------ state

VARIABLES
    knowledge_base_documents, \* rows of the documents table
    knowledge_base_chunks,    \* rows of the chunks table
    documents_id_seq,         \* SERIAL sequence of knowledge_base_documents.id
    chunks_id_seq,            \* SERIAL sequence of knowledge_base_chunks.id
    pc,                       \* the await each call is suspended at
    request,                  \* the arguments of each call
    at_start,                 \* the tables as a call that started alone found them
    content_hash,             \* locals of ingest_ingested_document, per call
    document_id,
    chunks,
    chunk_embeddings,
    idx,
    chunks_inserted,
    query_embedding,          \* local of search, per call
    scanned,                  \* rows the similarity search of each call visited
    result,                   \* what each call returned
    trace,                    \* collaborator calls made by each call, in order
    chunker,                  \* a TextChunker (chunk_size, overlap) and whether
                              \* new() has built it or panicked
    chunked,                  \* a chunk_text call on its own: text and outcome
    pg_database,              \* datname of the databases on the server
    admin                     \* the admin call in progress and the two before it

store == <<knowledge_base_documents, knowledge_base_chunks,
           documents_id_seq, chunks_id_seq>>
locals == <<content_hash, document_id, chunks, chunk_embeddings, idx,
            chunks_inserted, query_embedding, scanned>>
call == <<request, at_start>>
chunking == <<chunker, chunked>>
administration == <<pg_database, admin>>
vars == <<store, pc, call, locals, result, trace, chunking, administration>>

NoRequest == [op |-> "none", raw_content |-> <<>>, query |-> <<>>,
              limit |-> 0, threshold |-> None, chunks |-> <<>>]
IngestRequest(content) == [NoRequest EXCEPT !.op = "ingest", !.raw_content = content]
SearchRequest(query, limit, threshold) ==
    [NoRequest EXCEPT !.op = "search", !.query = query, !.limit = limit,
                      !.threshold = threshold]

\* Calls made on the EmbeddingClient itself.
EmbedDocumentRequest(cs) == [NoRequest EXCEPT !.op = "embed_document", !.chunks = cs]
EmbedQueryRequest(query) == [NoRequest EXCEPT !.op = "embed_query", !.query = query]
HealthRequest == [NoRequest EXCEPT !.op = "health"]

\* Result<IngestResult>, Result<Vec<SearchResult>> and the results of the
\* EmbeddingClient (vectors, or a HealthResponse).
Pending == [state |-> "pending", document_id |-> 0, chunks_inserted |-> 0,
            was_duplicate |-> FALSE, hits |-> <<>>, embeddings |-> <<>>,
            error |-> "", cause |-> ""]
OkEmbeddings(es) == [Pending EXCEPT !.state = "ok", !.embeddings = es]
OkHealth == [Pending EXCEPT !.state = "ok"]
OkIngest(id, n, dup) ==
    [Pending EXCEPT !.state = "ok", !.document_id = id, !.chunks_inserted = n,
                    !.was_duplicate = dup]
OkSearch(hits) == [Pending EXCEPT !.state = "ok", !.hits = hits]
Err(msg, cause) == [Pending EXCEPT !.state = "err", !.error = msg, !.cause = cause]

\* One collaborator call: the operation, how it ended ("ok", "error" for a
\* failed round trip, "rejected" for a constraint violation) and its payload.
\* `sent` is the request body of a call to the embedding server.
Called(op, outcome, arg) ==
    [op |-> op, outcome |-> outcome, arg |-> arg, sent |-> <<>>]
Sending(body, entry) == [entry EXCEPT !.sent = body]

Tables == [documents |-> knowledge_base_documents, chunks |-> knowledge_base_chunks]

InitPipeline ==
    /\ knowledge_base_documents = {}
    /\ knowledge_base_chunks = {}
    /\ documents_id_seq = 1
    /\ chunks_id_seq = 1
    /\ pc = [k \in Calls |-> "new"]
    /\ request = [k \in Calls |-> NoRequest]
    /\ at_start = [k \in Calls |-> Tables]
    /\ content_hash = [k \in Calls |-> 0]
    /\ document_id = [k \in Calls |-> 0]
    /\ chunks = [k \in Calls |-> <<>>]
    /\ chunk_embeddings = [k \in Calls |-> <<>>]
    /\ idx = [k \in Calls |-> 0]
    /\ chunks_inserted = [k \in Calls |-> 0]
    /\ query_embedding = [k \in Calls |-> <<>>]
    /\ scanned = [k \in Calls |-> {}]
    /\ result = [k \in Calls |-> Pending]
    /\ trace = [k \in Calls |-> <<>>]

\* What is kept of a finished admin call: the function, its argument, how it
\* ended, the answer of database_exists, and whether the name was in
\* pg_database when the call checked.  Here: no call yet.
NoAdminCall ==
    [op |-> "none", name |-> <<>>, state |-> "none", cause |-> "",
     exists |-> FALSE, existed |-> FALSE]

\* The admin functions at rest, on a server without user databases.
AdminIdle ==
    [op |-> "none", name |-> <<>>, pc |-> "idle", existed |-> FALSE,
     last |-> NoAdminCall, prev |-> NoAdminCall]

Init ==
    /\ InitPipeline
    /\ chunker = PipelineChunker
    /\ chunked = Unchunked(<<>>)
    /\ pg_database = {}
    /\ admin = AdminIdle

\* No call is between its start and its return.
Quiescent == \A other \in Calls : pc[other] \in {"new", "done"}

\* Call k starts: it is the next call in the numbering.  The tables it finds
\* are recorded when no other call is in flight (the comparisons with them
\* are about one caller).
Start(k, req) ==
    /\ pc[k] = "new"
    /\ IF k = 1 THEN TRUE ELSE pc[k - 1] # "new"
    /\ request' = [request EXCEPT ![k] = req]
    /\ at_start' = [at_start EXCEPT ![k] = IF Quiescent THEN Tables ELSE @]

\* Mutant: a failed round trip to the store is swallowed and the call ends
\* with a success result.
Return_swallowing(k, r) ==
    /\ pc' = [pc EXCEPT ![k] = "done"]
    /\ result' = [result EXCEPT ![k] =
            IF r.cause = "sqlx"
            THEN [r EXCEPT !.state = "ok", !.error = "", !.cause = ""]
            ELSE r]
    /\ UNCHANGED <<chunking, administration>>

\* `return` / `?` / `bail!`: the call ends with r.
Return(k, r) ==
    /\ pc' = [pc EXCEPT ![k] = "done"]
    /\ result' = [result EXCEPT ![k] = r]
    /\ UNCHANGED <<chunking, administration>>

Goto(k, label) ==
    /\ pc' = [pc EXCEPT ![k] = label]
    /\ UNCHANGED <<result, chunking, administration>>

Log(k, entry) == trace' = [trace EXCEPT ![k] = Append(@, entry)]

\* ------------------------------------------------------------------ store

\* GET_DOCUMENT_BY_HASH: the rows with content_hash = $1.
GetDocumentByHash(hash) ==
    {d \in knowledge_base_documents : d.content_hash = hash}

\* Mutant: the existence check never finds the row.
document_exists_by_hash_never(hash) == FALSE

\* KnowledgeBaseDb::document_exists_by_hash: row.is_some().
document_exists_by_hash(hash) == GetDocumentByHash(hash) # {}

\* Mutant: the documents table without the UNIQUE constraint.
DocumentHashTaken_unconstrained(hash) == FALSE

\* content_hash VARCHAR(64) NOT NULL UNIQUE of knowledge_base_documents.
DocumentHashTaken(hash) ==
    \E d \in knowledge_base_documents : d.content_hash = hash

\* Mutant: the chunks table without the UNIQUE constraint.
ChunkHashTaken_unconstrained(hash) == FALSE

\* content_hash VARCHAR(64) NOT NULL UNIQUE of knowledge_base_chunks.
ChunkHashTaken(hash) ==
    \E c \in knowledge_base_chunks : c.content_hash = hash

\* document_id INTEGER NOT NULL REFERENCES knowledge_base_documents(id).
DocumentIdPresent(id) == \E d \in knowledge_base_documents : d.id = id

\* The InsertDocument built by ingest_ingested_document (title, source_path,
\* source_type and metadata do not influence any step and are left out).
NewInsertDocument(raw_content, hash) ==
    [raw_content |-> raw_content, content_hash |-> hash]

\* The row INSERT_DOCUMENT adds, with the id drawn from the sequence.
DocumentRow(id, doc) ==
    [id |-> id, raw_content |-> doc.raw_content, content_hash |-> doc.content_hash]

\* Mutant: the loop stops one pair early.
Zip_short(cs, es) == [i \in 1..(Min(Len(cs), Len(es)) - 1) |-> <<cs[i], es[i]>>]

\* Mutant: each chunk is paired with the vector of the mirrored position.
Zip_mirrored(cs, es) ==
    [i \in 1..Min(Len(cs), Len(es)) |-> <<cs[i], es[Min(Len(cs), Len(es)) + 1 - i]>>]

\* chunks.iter().zip(chunk_embeddings.iter()): pairs up to the shorter length.
Zip(cs, es) == [i \in 1..Min(Len(cs), Len(es)) |-> <<cs[i], es[i]>>]

\* Mutant: total_chunks is the number of chunks handled so far.
NewInsertChunk_running_total(doc_id, i, cs, pair) ==
    [document_id |-> doc_id,
     chunk_index |-> i,
     total_chunks |-> i + 1,
     content |-> pair[1],
     content_hash |-> compute_sha256(pair[1]),
     embedding |-> pair[2]]

\* The InsertChunk built in the loop body for the i-th pair (i counted from 0).
NewInsertChunk(doc_id, i, cs, pair) ==
    [document_id |-> doc_id,
     chunk_index |-> i,
     total_chunks |-> Len(cs),
     content |-> pair[1],
     content_hash |-> compute_sha256(pair[1]),
     embedding |-> pair[2]]

\* The row INSERT_CHUNK adds, with the id drawn from the sequence.
ChunkRow(id, chunk) ==
    [id |-> id,
     document_id |-> chunk.document_id,
     chunk_index |-> chunk.chunk_index,
     total_chunks |-> chunk.total_chunks,
     content |-> chunk.content,
     content_hash |-> chunk.content_hash,
     embedding |-> chunk.embedding]

\* ------------------------------------------------------------------ embedding server

\* The embedding model: the vector of a text, here decided by its last
\* character (a query is embedded as a one-chunk document).
ModelVector(text) ==
    CASE text[Len(text)] = "a" -> <<5, 0>>
      [] text[Len(text)] = "b" -> <<3, 4>>
      [] OTHER -> <<0, 5>>

\* Bodies the server may send for POST /embed of one document: the
\* `embeddings` list, empty or holding one list with a vector per chunk, with
\* the last vector missing, or with one vector too many.
EmbedResponses(cs) ==
    LET n == Len(cs)
        vectors(m) == [j \in 1..m |-> ModelVector(cs[Min(j, n)])]
    IN  {<<>>} \cup {<<vectors(m)>> : m \in {n - 1, n, n + 1}}

\* Mutant: the count check is missing.
CountMismatch_unchecked(cs, es) == FALSE

\* chunk_embeddings.len() != chunks.len()
CountMismatch(cs, es) == Len(es) # Len(cs)

\* Mutant: every chunk is sent as a document of its own.
EmbedRequest_per_chunk(cs) == [i \in 1..Len(cs) |-> <<cs[i]>>]

\* EmbedRequest { chunks: vec![chunks.to_vec()] }: one document, holding the
\* chunks in the order given.
EmbedRequest(cs) == <<cs>>

\* Mutant: a request that failed is sent a second time.
SendLog_retrying(k, path, body, response) ==
    trace' = [trace EXCEPT ![k] =
        IF response = "success"
        THEN Append(@, Called(path, "ok", body))
        ELSE @ \o <<Called(path, "error", body), Called(path, "error", body)>>]

\* .send().await?.error_for_status()?: one HTTP request and its outcome.
SendLog(k, path, body, response) ==
    Log(k, Called(path, IF response = "success" THEN "ok" ELSE "error", body))

\* What the call returns after the request: the error of send() or of
\* error_for_status(), or nothing yet (the body is read next).
Sent(k, method, response) ==
    CASE response = "transport" ->
            Return(k, Err(method \o ": HTTP request failed", "http"))
      [] response = "status" ->
            Return(k, Err(method \o ": server returned error status", "http"))
      [] OTHER -> Goto(k, "read_body")

\* Mutant: an empty chunk list is sent to the server like any other.
EmptyChunkList_sent(cs) == FALSE

\* chunks.is_empty() of embed_document.
EmptyChunkList(cs) == cs = <<>>

\* EmbeddingClient::embed_document called directly, up to the await of send().
CallEmbedDocument(k) ==
    /\ \E cs \in ChunkLists :
        /\ Start(k, EmbedDocumentRequest(cs))
        /\ IF EmptyChunkList(cs)
           THEN /\ Return(k, Err("embed_document: chunks must not be empty", ""))
                /\ UNCHANGED trace
           ELSE \E response \in Responses :
                /\ SendLog(k, "POST /embed", EmbedRequest(cs), response)
                /\ Sent(k, "embed_document", response)
    /\ UNCHANGED <<store, locals>>

\* EmbeddingClient::embed_query called directly, up to the await of send().
CallEmbedQuery(k) ==
    /\ \E query \in Queries :
        /\ Start(k, EmbedQueryRequest(query))
        /\ IF Trim(query) = <<>>
           THEN /\ Return(k, Err("embed_query: query must not be empty", ""))
                /\ UNCHANGED trace
           ELSE \E response \in Responses :
                /\ SendLog(k, "POST /embed_query", query, response)
                /\ Sent(k, "embed_query", response)
    /\ UNCHANGED <<store, locals>>

\* EmbeddingClient::health, up to the await of send().
CallHealth(k) ==
    /\ Start(k, HealthRequest)
    /\ \E response \in Responses :
        /\ SendLog(k, "GET /health", <<>>, response)
        /\ Sent(k, "health", response)
    /\ UNCHANGED <<store, locals>>

\* .json().await? of the three methods and what they return from the body.
ReadBody(k) ==
    /\ pc[k] = "read_body"
    /\ \/ Return(k, Err(request[k].op \o ": failed to parse response JSON", "http"))
       \/ /\ request[k].op = "embed_document"
          /\ \E embeddings \in EmbedResponses(request[k].chunks) :
                IF embeddings = <<>>
                THEN Return(k, Err("embed_document: server returned empty embeddings list", ""))
                ELSE Return(k, OkEmbeddings(Head(embeddings)))
       \/ /\ request[k].op = "embed_query"
          /\ Return(k, OkEmbeddings(<<ModelVector(request[k].query)>>))
       \/ /\ request[k].op = "health"
          /\ Return(k, OkHealth)
    /\ UNCHANGED <<store, call, locals, trace>>

\* ------------------------------------------------------------------ ingest

\* ingest_text of one of the given texts, up to the first await: the hash is
\* computed and document_exists_by_hash runs.
IngestTextFrom(k, texts) ==
    /\ \E content \in texts :
        LET hash == compute_sha256(content) IN
        /\ Start(k, IngestRequest(content))
        /\ content_hash' = [content_hash EXCEPT ![k] = hash]
        /\ \/ /\ Log(k, Called("document_exists_by_hash", "error", hash))
              /\ Return(k, Err("Failed to check document by hash", "sqlx"))
           \/ /\ Log(k, Called("document_exists_by_hash", "ok", hash))
              /\ IF document_exists_by_hash(hash)
                 THEN Goto(k, "fetch_existing")
                 ELSE Goto(k, "insert_document")
    /\ UNCHANGED <<store, document_id, chunks, chunk_embeddings, idx,
                   chunks_inserted, query_embedding, scanned>>

\* ingest_text of a text of the general corpus.
IngestText(k) == IngestTextFrom(k, Texts)

\* ingest_text of a text of the corpus with shared chunk texts.
IngestSharedText(k) == IngestTextFrom(k, SharedTexts)

\* Mutant: the duplicate path clears the chunks of the document it found.
FetchExisting_clearing(k) ==
    /\ pc[k] = "fetch_existing"
    /\ Log(k, Called("fetch_existing", "ok", content_hash[k]))
    /\ \E doc \in GetDocumentByHash(content_hash[k]) :
          /\ Return(k, OkIngest(doc.id, 0, TRUE))
          /\ knowledge_base_chunks' =
                {c \in knowledge_base_chunks : c.document_id # doc.id}
    /\ UNCHANGED <<knowledge_base_documents, documents_id_seq, chunks_id_seq,
                   call, locals>>

\* Mutant: the duplicate path replaces the document it found by a new row
\* (the delete cascades to its chunks).
FetchExisting_reinserting(k) ==
    /\ pc[k] = "fetch_existing"
    /\ Log(k, Called("fetch_existing", "ok", content_hash[k]))
    /\ \E doc \in GetDocumentByHash(content_hash[k]) :
          /\ Return(k, OkIngest(documents_id_seq, 0, TRUE))
          /\ knowledge_base_documents' =
                (knowledge_base_documents \ {doc})
                \cup {[doc EXCEPT !.id = documents_id_seq]}
          /\ knowledge_base_chunks' =
                {c \in knowledge_base_chunks : c.document_id # doc.id}
          /\ documents_id_seq' = documents_id_seq + 1
    /\ UNCHANGED <<chunks_id_seq, call, locals>>

\* The SELECT ... WHERE content_hash = $1 with fetch_optional, and the return
\* of the duplicate outcome when it finds a row.
FetchExisting(k) ==
    /\ pc[k] = "fetch_existing"
    /\ \/ /\ Log(k, Called("fetch_existing", "error", content_hash[k]))
          /\ Return(k, Err("Failed to fetch existing document by hash", "sqlx"))
       \/ /\ Log(k, Called("fetch_existing", "ok", content_hash[k]))
          /\ IF GetDocumentByHash(content_hash[k]) = {}
             THEN Goto(k, "insert_document")
             ELSE \E doc \in GetDocumentByHash(content_hash[k]) :
                    Return(k, OkIngest(doc.id, 0, TRUE))
    /\ UNCHANGED <<store, call, locals>>

\* insert_document, then chunk_text and the empty check that follow it
\* without an await.
InsertDocument(k) ==
    /\ pc[k] = "insert_document"
    /\ LET insert_doc == NewInsertDocument(request[k].raw_content, content_hash[k]) IN
       \/ /\ Log(k, Called("insert_document", "error", insert_doc.content_hash))
          /\ Return(k, Err("Failed to insert document", "sqlx"))
          /\ UNCHANGED <<store, document_id, chunks>>
       \/ /\ DocumentHashTaken(insert_doc.content_hash)
          /\ Log(k, Called("insert_document", "rejected", insert_doc.content_hash))
          /\ Return(k, Err("Failed to insert document", "constraint"))
          /\ documents_id_seq' = documents_id_seq + 1
          /\ UNCHANGED <<knowledge_base_documents, knowledge_base_chunks,
                         chunks_id_seq, document_id, chunks>>
       \/ /\ ~DocumentHashTaken(insert_doc.content_hash)
          /\ Log(k, Called("insert_document", "ok", insert_doc.content_hash))
          /\ knowledge_base_documents' = knowledge_base_documents
                \cup {DocumentRow(documents_id_seq, insert_doc)}
          /\ documents_id_seq' = documents_id_seq + 1
          /\ document_id' = [document_id EXCEPT ![k] = documents_id_seq]
          /\ chunks' = [chunks EXCEPT ![k] = PipelineChunks(insert_doc.raw_content)]
          /\ IF chunks'[k] = <<>>
             THEN Return(k, Err("No chunks produced from document content", ""))
             ELSE Goto(k, "embed_document")
          /\ UNCHANGED <<knowledge_base_chunks, chunks_id_seq>>
    /\ UNCHANGED <<call, content_hash, chunk_embeddings, idx, chunks_inserted,
                   query_embedding, scanned>>

\* embed_document (one POST /embed), then the count check and the entry of
\* the for loop.
EmbedDocument(k) ==
    /\ pc[k] = "embed_document"
    /\ IF chunks[k] = <<>>
       THEN /\ Return(k, Err("embed_document: chunks must not be empty", ""))
            /\ UNCHANGED <<trace, chunk_embeddings>>
       ELSE
       \/ /\ Log(k, Sending(EmbedRequest(chunks[k]),
                            Called("embed_document", "error", <<>>)))
          /\ Return(k, Err("embed_document: HTTP request failed", "http"))
          /\ UNCHANGED chunk_embeddings
       \/ \E embeddings \in EmbedResponses(chunks[k]) :
          IF embeddings = <<>>
          THEN /\ Log(k, Sending(EmbedRequest(chunks[k]),
                                 Called("embed_document", "error", <<>>)))
               /\ Return(k, Err("embed_document: server returned empty embeddings list", ""))
               /\ UNCHANGED chunk_embeddings
          ELSE /\ Log(k, Sending(EmbedRequest(chunks[k]),
                                 Called("embed_document", "ok", Head(embeddings))))
               /\ IF CountMismatch(chunks[k], Head(embeddings))
                  THEN /\ Return(k, Err("Embedding count mismatch", ""))
                       /\ UNCHANGED chunk_embeddings
                  ELSE /\ chunk_embeddings' =
                            [chunk_embeddings EXCEPT ![k] = Head(embeddings)]
                       /\ IF Zip(chunks[k], Head(embeddings)) = <<>>
                          THEN Return(k, OkIngest(document_id[k], 0, FALSE))
                          ELSE Goto(k, "insert_chunk")
    /\ UNCHANGED <<store, call, content_hash, document_id, chunks, idx,
                   chunks_inserted, query_embedding, scanned>>

\* One iteration of the for loop: insert_chunk, the count, and the return
\* after the last pair.
InsertChunk(k) ==
    /\ pc[k] = "insert_chunk"
    /\ LET pairs == Zip(chunks[k], chunk_embeddings[k])
           insert_chunk == NewInsertChunk(document_id[k], idx[k], chunks[k],
                                          pairs[idx[k] + 1])
       IN
       \/ /\ Log(k, Called("insert_chunk", "error", insert_chunk))
          /\ Return(k, Err("Failed to insert chunk", "sqlx"))
          /\ UNCHANGED <<store, idx, chunks_inserted>>
       \/ /\ ChunkHashTaken(insert_chunk.content_hash)
             \/ ~DocumentIdPresent(insert_chunk.document_id)
          /\ Log(k, Called("insert_chunk", "rejected", insert_chunk))
          /\ Return(k, Err("Failed to insert chunk", "constraint"))
          /\ chunks_id_seq' = chunks_id_seq + 1
          /\ UNCHANGED <<knowledge_base_documents, knowledge_base_chunks,
                         documents_id_seq, idx, chunks_inserted>>
       \/ /\ ~ChunkHashTaken(insert_chunk.content_hash)
          /\ DocumentIdPresent(insert_chunk.document_id)
          /\ Log(k, Called("insert_chunk", "ok", insert_chunk))
          /\ knowledge_base_chunks' = knowledge_base_chunks
                \cup {ChunkRow(chunks_id_seq, insert_chunk)}
          /\ chunks_id_seq' = chunks_id_seq + 1
          /\ chunks_inserted' = [chunks_inserted EXCEPT ![k] = @ + 1]
          /\ idx' = [idx EXCEPT ![k] = @ + 1]
          /\ IF idx'[k] = Len(pairs)
             THEN Return(k, OkIngest(document_id[k], chunks_inserted'[k], FALSE))
             ELSE Goto(k, "insert_chunk")
          /\ UNCHANGED <<knowledge_base_documents, documents_id_seq>>
    /\ UNCHANGED <<call, content_hash, document_id, chunks, chunk_embeddings,
                   query_embedding, scanned>>

\* ------------------------------------------------------------------ search

\* 1.0 - (embedding <=> query) for vectors of norm 5, in units of 1/25.
Score(embedding, query) == embedding[1] * query[1] + embedding[2] * query[2]

\* FROM knowledge_base_chunks c JOIN knowledge_base_documents d
\*   ON c.document_id = d.id
JoinedChunks ==
    {c \in knowledge_base_chunks : DocumentIdPresent(c.document_id)}

\* Mutant: the filter is not applied.
PassesThreshold_always(c, query, threshold) == TRUE

\* WHERE ($2 IS NULL OR score >= $2)
PassesThreshold(c, query, threshold) ==
    threshold = None \/ Score(c.embedding, query) >= threshold[1]

\* Mutant: the cosine distance is returned as the score.
SearchHit_distance(c, query) ==
    [id |-> c.id,
     document_id |-> c.document_id,
     chunk_index |-> c.chunk_index,
     total_chunks |-> c.total_chunks,
     content |-> c.content,
     content_hash |-> c.content_hash,
     similarity_score |-> Score(query, query) - Score(c.embedding, query)]

\* The SearchResult of one row.
SearchHit(c, query) ==
    [id |-> c.id,
     document_id |-> c.document_id,
     chunk_index |-> c.chunk_index,
     total_chunks |-> c.total_chunks,
     content |-> c.content,
     content_hash |-> c.content_hash,
     similarity_score |-> Score(c.embedding, query)]

\* Mutant: LIMIT $3 without the ORDER BY.
Ranked_unordered(rows, query, limit) ==
    LET n == Min(limit, Cardinality(rows)) IN
    {s \in [1..n -> rows] : \A i, j \in 1..n : i < j => s[i] # s[j]}

\* ORDER BY c.embedding <=> $1 LIMIT $3: every answer the statement may give
\* (rows at equal distance come in any order).
Ranked(rows, query, limit) ==
    LET n == Min(limit, Cardinality(rows)) IN
    {s \in [1..n -> rows] :
        /\ \A i, j \in 1..n : i < j =>
              /\ s[i] # s[j]
              /\ Score(s[i].embedding, query) >= Score(s[j].embedding, query)
        /\ \A c \in rows : (\A i \in 1..n : s[i] # c) =>
              \A i \in 1..n : Score(s[i].embedding, query) >= Score(c.embedding, query)}

\* CREATE INDEX ... USING hnsw (embedding vector_cosine_ops): an approximate
\* nearest-neighbour index.  A scan of it visits all rows of a table of at
\* most EfSearch rows, and EfSearch rows of a larger one, not always the
\* nearest.
IndexScans(rows) ==
    IF Cardinality(rows) <= EfSearch THEN {rows}
    ELSE {visited \in SUBSET rows : Cardinality(visited) = EfSearch}

\* The rows the statement may visit: all of them (sequential scan and sort)
\* or those of an index scan, as the planner chooses.
Scans(rows) == {rows} \cup IndexScans(rows)

\* VECTOR_SIMILARITY_SEARCH over the visited rows: the WHERE clause filters
\* what the scan produced.
SimilarityAnswers(visited, query, threshold, limit) ==
    LET rows == {c \in visited : PassesThreshold(c, query, threshold)} IN
    {[i \in 1..Len(s) |-> SearchHit(s[i], query)] : s \in Ranked(rows, query, limit)}

\* search up to its first await: the empty-query check and embed_query (one
\* POST /embed_query).
Search(k) ==
    /\ \E query \in Queries, limit \in Limits, threshold \in Thresholds :
        /\ Start(k, SearchRequest(query, limit, threshold))
        /\ IF Trim(query) = <<>>
           THEN /\ Return(k, Err("Search query cannot be empty", ""))
                /\ UNCHANGED <<trace, query_embedding>>
           ELSE
           \/ /\ Log(k, Called("embed_query", "error", query))
              /\ Return(k, Err("Failed to embed query", "http"))
              /\ UNCHANGED query_embedding
           \/ /\ Log(k, Called("embed_query", "ok", query))
              /\ query_embedding' = [query_embedding EXCEPT ![k] = ModelVector(query)]
              /\ Goto(k, "vector_similarity_search")
    /\ UNCHANGED <<store, content_hash, document_id, chunks, chunk_embeddings,
                   idx, chunks_inserted, scanned>>

\* vector_similarity_search: one statement over one snapshot of the tables.
VectorSimilaritySearch(k) ==
    /\ pc[k] = "vector_similarity_search"
    /\ \/ /\ Log(k, Called("vector_similarity_search", "error", {}))
          /\ Return(k, Err("Database search failed", "sqlx"))
          /\ UNCHANGED scanned
       \/ /\ Log(k, Called("vector_similarity_search", "ok", JoinedChunks))
          /\ \E visited \in Scans(JoinedChunks) :
                /\ scanned' = [scanned EXCEPT ![k] = visited]
                /\ \E hits \in SimilarityAnswers(visited, query_embedding[k],
                                                 request[k].threshold,
                                                 request[k].limit) :
                      Return(k, OkSearch(hits))
    /\ UNCHANGED <<store, call, content_hash, document_id, chunks,
                   chunk_embeddings, idx, chunks_inserted, query_embedding>>

\* ------------------------------------------------------------------ specifications

\* Any number of callers: a call may start while others are in flight.
Next ==
    \E k \in Calls :
        \/ IngestText(k)
        \/ Search(k)
        \/ FetchExisting(k)
        \/ InsertDocument(k)
        \/ EmbedDocument(k)
        \/ InsertChunk(k)
        \/ VectorSimilaritySearch(k)

Spec == Init /\ [][Next]_vars

\* One caller: a call starts only when no other call is in flight.
StartAlone(k) == Quiescent /\ (IngestText(k) \/ Search(k))

NextSeq ==
    \E k \in Calls :
        \/ StartAlone(k)
        \/ FetchExisting(k)
        \/ InsertDocument(k)
        \/ EmbedDocument(k)
        \/ InsertChunk(k)
        \/ VectorSimilaritySearch(k)

SpecSeq == Init /\ [][NextSeq]_vars

\* Any number of callers working on the corpus with shared chunk texts.
NextShared ==
    \E k \in Calls :
        \/ IngestSharedText(k)
        \/ Search(k)
        \/ FetchExisting(k)
        \/ InsertDocument(k)
        \/ EmbedDocument(k)
        \/ InsertChunk(k)
        \/ VectorSimilaritySearch(k)

SpecShared == Init /\ [][NextShared]_vars

\* One caller of the pipeline and of the embedding client.
StartClientAlone(k) ==
    Quiescent /\ (CallEmbedDocument(k) \/ CallEmbedQuery(k) \/ CallHealth(k)
                     \/ IngestText(k) \/ Search(k))

NextClient ==
    \E k \in Calls :
        \/ StartClientAlone(k)
        \/ ReadBody(k)
        \/ FetchExisting(k)
        \/ InsertDocument(k)
        \/ EmbedDocument(k)
        \/ InsertChunk(k)
        \/ VectorSimilaritySearch(k)

SpecClient == Init /\ [][NextClient]_vars

\* ------------------------------------------------------------------ admin

\* The name as PostgreSQL reads it where it is written into the statement as
\* a quoted identifier (format!("CREATE DATABASE \"{}\"", ...)): identifiers
\* are cut to MaxIdentifierLen characters.
Identifier(name) == SubSeq(name, 1, Min(Len(name), MaxIdentifierLen))

\* SELECT 1 FROM pg_database WHERE datname = $1: the name is bound as a text
\* value and compared as it is.
Exists(name) == name \in pg_database

\* database_exists, alone or as the first step of create_database and
\* drop_database: a connection to the system database and one query.
DatabaseExists ==
    /\ admin.pc = "idle"
    /\ \E op \in AdminOps, name \in DatabaseNames :
        LET done(state, cause, answer) ==
                admin' = [AdminIdle EXCEPT
                            !.last = [op |-> op, name |-> name, state |-> state,
                                      cause |-> cause, exists |-> answer,
                                      existed |-> Exists(name)],
                            !.prev = admin.last]
            next(label) ==
                admin' = [admin EXCEPT !.op = op, !.name = name, !.pc = label,
                                       !.existed = Exists(name)]
        IN  \/ done("err", "sqlx", FALSE)
            \/ CASE op = "database_exists" -> done("ok", "", Exists(name))
                 [] op = "create_database" ->
                        IF Exists(name) THEN done("ok", "", FALSE)
                        ELSE next("create")
                 [] OTHER ->
                        IF ~Exists(name) THEN done("ok", "", FALSE)
                        ELSE next("terminate")
    /\ UNCHANGED <<store, pc, call, locals, result, trace, chunking, pg_database>>

\* The call in progress ends with the given outcome.
AdminDone(state, cause) ==
    admin' = [AdminIdle EXCEPT
                !.last = [op |-> admin.op, name |-> admin.name, state |-> state,
                          cause |-> cause, exists |-> FALSE,
                          existed |-> admin.existed],
                !.prev = admin.last]

\* create_database after the check: a second connection and CREATE DATABASE,
\* which the server rejects when a database of that name exists.
CreateDatabase ==
    /\ admin.pc = "create"
    /\ \/ /\ AdminDone("err", "sqlx")
          /\ UNCHANGED pg_database
       \/ IF Identifier(admin.name) \in pg_database
          THEN /\ AdminDone("err", "rejected")
               /\ UNCHANGED pg_database
          ELSE /\ pg_database' = pg_database \cup {Identifier(admin.name)}
               /\ AdminDone("ok", "")
    /\ UNCHANGED <<store, pc, call, locals, result, trace, chunking>>

\* drop_database after the check: a second connection and the statement
\* that terminates the sessions of the database.
TerminateBackends ==
    /\ admin.pc = "terminate"
    /\ \/ AdminDone("err", "sqlx")
       \/ admin' = [admin EXCEPT !.pc = "drop"]
    /\ UNCHANGED <<store, pc, call, locals, result, trace, chunking, pg_database>>

\* DROP DATABASE IF EXISTS.
DropDatabase ==
    /\ admin.pc = "drop"
    /\ \/ /\ AdminDone("err", "sqlx")
          /\ UNCHANGED pg_database
       \/ /\ pg_database' = pg_database \ {Identifier(admin.name)}
          /\ AdminDone("ok", "")
    /\ UNCHANGED <<store, pc, call, locals, result, trace, chunking>>

NextAdmin ==
    DatabaseExists \/ CreateDatabase \/ TerminateBackends \/ DropDatabase

\* The admin functions, called one after another.
SpecAdmin == Init /\ [][NextAdmin]_vars

\* TextChunker::new: a value is built when both assertions hold, and the
\* call panics otherwise.
NewChunker ==
    /\ chunker.state = "args"
    /\ chunker' = [chunker EXCEPT !.state =
            IF NewAsserts(chunker.chunk_size, chunker.overlap)
            THEN "built" ELSE "panicked"]
    /\ UNCHANGED <<store, pc, call, locals, result, trace, chunked,
                   administration>>

\* TextChunker::chunk_text, called on its own on a chunker that exists.
ChunkText ==
    /\ chunker.state = "built"
    /\ chunked.state = "new"
    /\ chunked' = [chunked EXCEPT
            !.state = "done",
            !.windows = chunk_windows(chunker.chunk_size, chunker.overlap,
                                      chunked.text),
            !.chunks = chunk_text(chunker.chunk_size, chunker.overlap,
                                  chunked.text)]
    /\ UNCHANGED <<store, pc, call, locals, result, trace, chunker,
                   administration>>

InitChunker ==
    /\ InitPipeline
    /\ pg_database = {}
    /\ admin = AdminIdle
    /\ chunker \in ChunkerArgs
    /\ chunked \in {Unchunked(text) : text \in ChunkerTexts}

NextChunker == NewChunker \/ ChunkText

\* Any chunker on any text.
SpecChunker == InitChunker /\ [][NextChunker]_vars

\* ------------------------------------------------------------------ claims

Done(k) == pc[k] = "done"
IsIngest(k) == request[k].op = "ingest"
IsSearch(k) == request[k].op = "search"
Succeeded(k) == Done(k) /\ result[k].state = "ok"
Failed(k) == Done(k) /\ result[k].state = "err"

\* The chunker output of the text call k ingests.
ChunksOf(k) == PipelineChunks(request[k].raw_content)

\* Positions of call k's trace with a call of the collaborator operation op.
CallsOf(k, op) == {i \in DOMAIN trace[k] : trace[k][i].op = op}

\* The call ended because a round trip to the store or to the embedding
\* server failed.
RoundTripFailed(k) == Failed(k) /\ result[k].cause \in {"sqlx", "http"}

\* The embedding server answered with a malformed body (no list, or a list
\* of the wrong length).
GatewayMisbehaved(k) ==
    /\ Failed(k)
    /\ result[k].error \in {"embed_document: server returned empty embeddings list",
                            "Embedding count mismatch"}

\* The store rejected a chunk (content_hash UNIQUE of knowledge_base_chunks).
ChunkRejected(k) ==
    /\ Failed(k)
    /\ result[k].error = "Failed to insert chunk"
    /\ result[k].cause = "constraint"

\* C1: with one caller, the first ingest of a text with at least one chunk
\* returns was_duplicate = false unless a collaborator call fails, and every
\* later ingest of the same text returns was_duplicate = true,
\* chunks_inserted = 0 and the document_id of the first call unless a round
\* trip fails.
C1_SequentialIdempotence ==
    \A k \in Calls :
        (Done(k) /\ IsIngest(k) /\ ChunksOf(k) # <<>>) =>
            /\ (\A j \in 1..(k - 1) :
                    ~(IsIngest(j) /\ request[j].raw_content = request[k].raw_content))
               => \/ result[k] = OkIngest(document_id[k], Len(ChunksOf(k)), FALSE)
                  \/ RoundTripFailed(k)
                  \/ GatewayMisbehaved(k)
                  \/ ChunkRejected(k)
            /\ \A j \in 1..(k - 1) :
                  ( /\ IsIngest(j)
                    /\ request[j].raw_content = request[k].raw_content
                    /\ Succeeded(j)
                    /\ ~result[j].was_duplicate )
                  => \/ result[k] = OkIngest(result[j].document_id, 0, TRUE)
                     \/ RoundTripFailed(k)

\* C1 witness: a text was ingested and then ingested again, and the second
\* call reported the duplicate.
C1_Witness ==
    \E j, k \in Calls :
        /\ j < k
        /\ IsIngest(j) /\ IsIngest(k)
        /\ request[j].raw_content = request[k].raw_content
        /\ ChunksOf(k) # <<>>
        /\ Succeeded(j) /\ ~result[j].was_duplicate
        /\ Succeeded(k) /\ result[k].was_duplicate

\* Call k lost the uniqueness check of the documents table.
LostUniquenessCheck(k) ==
    \E i \in CallsOf(k, "insert_document") : trace[k][i].outcome = "rejected"

\* C2: an ingest call that loses the uniqueness check on the fingerprint
\* returns the duplicate outcome with the id of the row that won, not an error.
C2_LoserReportsDuplicate ==
    \A k \in Calls :
        (Done(k) /\ IsIngest(k) /\ LostUniquenessCheck(k)) =>
            /\ result[k].state = "ok"
            /\ result[k].was_duplicate
            /\ result[k].chunks_inserted = 0
            /\ \E d \in knowledge_base_documents :
                  /\ d.content_hash = content_hash[k]
                  /\ d.id = result[k].document_id

\* C3: no two rows of the documents table have the same content_hash.
C3_DocumentFingerprintUnique ==
    \A d1, d2 \in knowledge_base_documents :
        d1.content_hash = d2.content_hash => d1 = d2

\* C3 witness: two ingests of one text both reached insert_document, one row
\* is in the table and the other insert was rejected.
C3_Witness ==
    \E j, k \in Calls :
        /\ j # k
        /\ content_hash[j] = content_hash[k]
        /\ \E i \in CallsOf(j, "insert_document") : trace[j][i].outcome = "ok"
        /\ LostUniquenessCheck(k)

\* The chunk rows of document d among rows.
RowsOf(rows, d) == {c \in rows : c.document_id = d}

\* C4: the rows a similarity search reads hold, for every document, none or
\* all total_chunks of its chunks.
C4_NoPartialDocumentVisible ==
    \A k \in Calls :
        \A i \in CallsOf(k, "vector_similarity_search") :
            trace[k][i].outcome = "ok" =>
                \A c \in trace[k][i].arg :
                    Cardinality(RowsOf(trace[k][i].arg, c.document_id)) = c.total_chunks

\* The embedding server answered call k's POST /embed with n vectors.
GatewayReturned(k, n) ==
    \E i \in CallsOf(k, "embed_document") :
        trace[k][i].outcome = "ok" /\ Len(trace[k][i].arg) = n

\* The text of call k had no row in the documents table when the call started.
NewDocument(k) ==
    \A d \in at_start[k].documents : d.content_hash # content_hash[k]

\* The chunk texts of call k differ from each other and from every chunk row
\* present when the call started.
NewChunks(k) ==
    LET cs == ChunksOf(k) IN
    /\ \A i, j \in DOMAIN cs : i # j => cs[i] # cs[j]
    /\ \A i \in DOMAIN cs : \A c \in at_start[k].chunks :
          c.content_hash # compute_sha256(cs[i])

\* The rows of the chunks table that belong to the document call k inserted.
ChunkRowsOf(k) == RowsOf(knowledge_base_chunks, document_id[k])

\* C5 as stated: ingest of a text that is not in the store and has N >= 1
\* chunks, with a gateway that returns N vectors and no failed round trip,
\* returns was_duplicate = false and chunks_inserted = N, and the store holds
\* N chunk rows of the document.
C5_RoundTripAsStated ==
    \A k \in Calls :
        ( /\ Done(k) /\ IsIngest(k)
          /\ NewDocument(k)
          /\ ChunksOf(k) # <<>>
          /\ GatewayReturned(k, Len(ChunksOf(k)))
          /\ ~RoundTripFailed(k) )
        => /\ result[k] = OkIngest(document_id[k], Len(ChunksOf(k)), FALSE)
           /\ Cardinality(ChunkRowsOf(k)) = Len(ChunksOf(k))

\* C5 amended: the same, for a text whose chunk texts are pairwise different
\* and not yet in the chunks table.
C5_RoundTrip ==
    \A k \in Calls :
        ( /\ Done(k) /\ IsIngest(k)
          /\ NewDocument(k)
          /\ ChunksOf(k) # <<>>
          /\ NewChunks(k)
          /\ GatewayReturned(k, Len(ChunksOf(k)))
          /\ ~RoundTripFailed(k) )
        => /\ result[k] = OkIngest(document_id[k], Len(ChunksOf(k)), FALSE)
           /\ Cardinality(ChunkRowsOf(k)) = Len(ChunksOf(k))

\* C5 witness: a text with three chunks was ingested in full.
C5_Witness ==
    \E k \in Calls :
        /\ Succeeded(k) /\ IsIngest(k) /\ NewDocument(k) /\ NewChunks(k)
        /\ Len(ChunksOf(k)) = 3
        /\ result[k].chunks_inserted = 3
        /\ Cardinality(ChunkRowsOf(k)) = 3

\* The embedding server answered call k with a number of vectors that is not
\* the number of chunks.
GatewayMiscounted(k) ==
    \E i \in CallsOf(k, "embed_document") :
        trace[k][i].outcome = "ok" /\ Len(trace[k][i].arg) # Len(chunks[k])

\* C6: when the gateway returns a number of vectors different from the number
\* of chunks, ingest returns an error, insert_chunk is not called and the
\* document never has a chunk row.
C6_MismatchPersistsNothing ==
    \A k \in Calls :
        (IsIngest(k) /\ GatewayMiscounted(k)) =>
            /\ Failed(k)
            /\ CallsOf(k, "insert_chunk") = {}
            /\ ChunkRowsOf(k) = {}

\* C6 witness: the gateway returned one vector too many for a document whose
\* row is in the store.
C6_Witness ==
    \E k \in Calls :
        /\ IsIngest(k) /\ Failed(k)
        /\ DocumentIdPresent(document_id[k])
        /\ \E i \in CallsOf(k, "embed_document") :
              trace[k][i].outcome = "ok"
              /\ Len(trace[k][i].arg) = Len(chunks[k]) + 1

\* C7: ingest of a text with an empty chunker output returns an error, and
\* neither embed_document nor insert_chunk is called.
C7_EmptyContentFails ==
    \A k \in Calls :
        (Done(k) /\ IsIngest(k) /\ ChunksOf(k) = <<>>) =>
            /\ result[k].state = "err"
            /\ CallsOf(k, "embed_document") = {}
            /\ CallsOf(k, "insert_chunk") = {}

\* C8: in one ingest call insert_document succeeds before the first
\* insert_chunk, the n-th insert_chunk (n from 0) carries chunk_index n, the
\* n-th chunk text and the n-th vector the gateway returned, and the rows of
\* a document are inserted in increasing chunk_index order.
C8_InsertionOrder ==
    /\ \A k \in Calls :
          LET inserts == CallsOf(k, "insert_chunk")
              texts == ChunksOf(k)
              embedded == {e \in CallsOf(k, "embed_document") :
                              trace[k][e].outcome = "ok"}
              stored == {j \in CallsOf(k, "insert_document") :
                            trace[k][j].outcome = "ok"}
          IN  \A i \in inserts :
                LET n == Cardinality({j \in inserts : j < i})
                    c == trace[k][i].arg
                IN  /\ \E j \in stored : j < i
                    /\ n < Len(texts)
                    /\ c.document_id = document_id[k]
                    /\ c.chunk_index = n
                    /\ c.content = texts[n + 1]
                    /\ \E e \in embedded :
                          /\ e < i
                          /\ n < Len(trace[k][e].arg)
                          /\ c.embedding = trace[k][e].arg[n + 1]
    /\ \A r1, r2 \in knowledge_base_chunks :
          (r1.document_id = r2.document_id /\ r1.chunk_index < r2.chunk_index)
          => r1.id < r2.id

\* C8 witness: an ingest made three insert_chunk calls with three different
\* vectors.
C8_Witness ==
    \E k \in Calls :
        /\ Succeeded(k)
        /\ Cardinality(CallsOf(k, "insert_chunk")) = 3
        /\ Cardinality({c.embedding : c \in ChunkRowsOf(k)}) = 3

\* C9: every chunk row has 0 <= chunk_index < total_chunks, the rows of one
\* document agree on total_chunks, and no two of them share a chunk_index.
C9_ChunkIndexInvariant ==
    /\ \A c \in knowledge_base_chunks :
          0 <= c.chunk_index /\ c.chunk_index < c.total_chunks
    /\ \A c1, c2 \in knowledge_base_chunks :
          c1.document_id = c2.document_id =>
              /\ c1.total_chunks = c2.total_chunks
              /\ (c1.chunk_index = c2.chunk_index => c1 = c2)

\* C9 witness: an ingest failed after two of its three chunks were inserted.
C9_Witness ==
    \E k \in Calls :
        /\ Failed(k) /\ IsIngest(k)
        /\ Len(chunks[k]) = 3
        /\ Cardinality(ChunkRowsOf(k)) = 2

\* Call k is the last call that started.
IsLastCall(k) == IF k = MaxCalls THEN TRUE ELSE pc[k + 1] = "new"

\* C10: an ingest that returns was_duplicate = true made no call but the
\* existence check and the fetch of the existing row, and with one caller the
\* tables are what they were when the call started.
C10_DuplicateWritesNothing ==
    \A k \in Calls :
        (Succeeded(k) /\ IsIngest(k) /\ result[k].was_duplicate) =>
            /\ \A i \in DOMAIN trace[k] :
                  trace[k][i].op \in {"document_exists_by_hash", "fetch_existing"}
            /\ IsLastCall(k) => Tables = at_start[k]

\* C10 witness: a duplicate was reported for a document that has chunk rows.
C10_Witness ==
    \E k \in Calls :
        /\ Succeeded(k) /\ IsIngest(k) /\ result[k].was_duplicate
        /\ RowsOf(knowledge_base_chunks, result[k].document_id) # {}

\* C11: every step of an ingest or search call keeps every document row and
\* every chunk row that is in the store, with all its fields, and a row it
\* adds has an id no row had.
C11_RowsNeverChange ==
    [][ /\ knowledge_base_documents \subseteq knowledge_base_documents'
        /\ knowledge_base_chunks \subseteq knowledge_base_chunks'
        /\ \A d \in knowledge_base_documents' \ knowledge_base_documents :
              \A old \in knowledge_base_documents : old.id # d.id
        /\ \A c \in knowledge_base_chunks' \ knowledge_base_chunks :
              \A old \in knowledge_base_chunks : old.id # c.id ]_vars

\* C11 witness: a call that started with rows in the store has added a
\* document and chunks of its own, and the rows it found are all there.
C11_Witness ==
    \E k \in Calls :
        /\ Succeeded(k) /\ IsIngest(k) /\ ~result[k].was_duplicate
        /\ at_start[k].documents # {}
        /\ at_start[k].chunks # {}
        /\ at_start[k].documents \subseteq knowledge_base_documents
        /\ at_start[k].chunks \subseteq knowledge_base_chunks
        /\ ChunkRowsOf(k) # {}

\* --- ingest calls run one after another, with collaborators that do not fail.
\* The store is written without the generated ids: a document is its text, a
\* chunk row names the text of its document.

\* The for loop from the i-th chunk on: rows are added until a chunk text is
\* already a row (content_hash UNIQUE).
RECURSIVE SerialInsertChunks(_, _, _, _)
SerialInsertChunks(owner, cs, i, rows) ==
    IF i > Len(cs) THEN [chunks |-> rows, inserted |-> Len(cs), failed |-> FALSE]
    ELSE IF \E r \in rows : r.content = cs[i]
    THEN [chunks |-> rows, inserted |-> i - 1, failed |-> TRUE]
    ELSE SerialInsertChunks(owner, cs, i + 1,
            rows \cup {[owner |-> owner, chunk_index |-> i - 1,
                        total_chunks |-> Len(cs), content |-> cs[i]]})

\* What a call returned, without the generated document id.
Outcome(state, n, dup) ==
    [state |-> state, chunks_inserted |-> n, was_duplicate |-> dup]

\* One ingest of content on the store st, alone.
SerialIngest(content, st) ==
    IF content \in st.documents
    THEN [store |-> st, outcome |-> Outcome("ok", 0, TRUE)]
    ELSE LET cs == PipelineChunks(content)
             documents == st.documents \cup {content}
             loop == SerialInsertChunks(content, cs, 1, st.chunks)
         IN  IF cs = <<>>
             THEN [store |-> [documents |-> documents, chunks |-> st.chunks],
                   outcome |-> Outcome("err", 0, FALSE)]
             ELSE [store |-> [documents |-> documents, chunks |-> loop.chunks],
                   outcome |-> IF loop.failed THEN Outcome("err", 0, FALSE)
                               ELSE Outcome("ok", loop.inserted, FALSE)]

\* The calls order[n], order[n + 1], ... run one after another on st.
RECURSIVE SerialRun(_, _, _, _)
SerialRun(order, n, st, outcomes) ==
    IF n > Len(order) THEN [store |-> st, outcomes |-> outcomes]
    ELSE LET k == order[n]
             step == SerialIngest(request[k].raw_content, st)
         IN  SerialRun(order, n + 1, step.store,
                       [outcomes EXCEPT ![k] = step.outcome])

\* The orders in which the calls can run one after another.
Orders == {order \in [Calls -> Calls] : \A i, j \in Calls : i # j => order[i] # order[j]}

\* The store and the results of the calls as they are, without generated ids.
StoreWithoutIds ==
    [documents |-> {d.raw_content : d \in knowledge_base_documents},
     chunks |-> {[owner |-> (CHOOSE d \in knowledge_base_documents :
                                d.id = c.document_id).raw_content,
                  chunk_index |-> c.chunk_index,
                  total_chunks |-> c.total_chunks,
                  content |-> c.content] : c \in knowledge_base_chunks}]

OutcomesWithoutIds ==
    [k \in Calls |-> Outcome(result[k].state, result[k].chunks_inserted,
                             result[k].was_duplicate)]

\* Every call is a finished ingest, the texts are pairwise different, and
\* neither the store nor the gateway failed a round trip or sent a malformed
\* answer.
DistinctIngestsDone ==
    /\ \A k \in Calls : Done(k) /\ IsIngest(k)
    /\ \A j, k \in Calls : j # k => request[j].raw_content # request[k].raw_content
    /\ \A k \in Calls : ~RoundTripFailed(k) /\ ~GatewayMisbehaved(k)

\* C12: when concurrent ingest calls on pairwise different texts have all
\* returned, their results and the store (generated ids left aside) are those
\* of running the calls one after another in some order.
C12_ConcurrentIngestsSerialise ==
    DistinctIngestsDone =>
        \E order \in Orders :
            SerialRun(order, 1, [documents |-> {}, chunks |-> {}],
                      [k \in Calls |-> Outcome("pending", 0, FALSE)])
            = [store |-> StoreWithoutIds, outcomes |-> OutcomesWithoutIds]

\* C13: no two rows of the chunks table, of one document or of two, have the
\* same content_hash, that is the same chunk text.
C13_ChunkFingerprintUnique ==
    \A c1, c2 \in knowledge_base_chunks :
        (c1.content_hash = c2.content_hash \/ c1.content = c2.content) => c1 = c2

\* C13 witness: an insert_chunk was rejected because a row of another
\* document holds the chunk text.
C13_Witness ==
    \E k \in Calls : \E i \in CallsOf(k, "insert_chunk") :
        /\ trace[k][i].outcome = "rejected"
        /\ \E c \in knowledge_base_chunks :
              /\ c.content = trace[k][i].arg.content
              /\ c.document_id # trace[k][i].arg.document_id

\* C14: a collaborator call of ingest or search that fails (a failed round
\* trip, an answer the client rejects, a statement the store rejects) is the
\* last collaborator call of its pipeline call, and the pipeline call returns
\* an error.
C14_FailurePropagates ==
    \A k \in Calls : \A i \in DOMAIN trace[k] :
        trace[k][i].outcome # "ok" =>
            /\ i = Len(trace[k])
            /\ Failed(k)

\* C14 witness: an ingest whose insert_chunk failed after an earlier
\* insert_chunk succeeded, and a search whose similarity search failed.
C14_Witness ==
    /\ \E k \in Calls :
          /\ Failed(k) /\ IsIngest(k)
          /\ Cardinality(CallsOf(k, "insert_chunk")) >= 2
          /\ trace[k][Len(trace[k])].outcome = "error"
    /\ \E k \in Calls :
          /\ Failed(k) /\ IsSearch(k)
          /\ CallsOf(k, "vector_similarity_search") # {}

\* The query of call k is empty or holds only whitespace.
BlankQuery(k) == \A i \in DOMAIN request[k].query : IsWhitespace(request[k].query[i])

\* C15: a search with an empty or whitespace-only query returns an error and
\* calls neither the embedding server nor the store; with one caller the
\* tables are what they were when the call started.
C15_BlankQueryRejected ==
    \A k \in Calls :
        (Done(k) /\ IsSearch(k) /\ BlankQuery(k)) =>
            /\ Failed(k)
            /\ trace[k] = <<>>
            /\ IsLastCall(k) => Tables = at_start[k]

\* C15 witness: a whitespace-only query was rejected while the store held
\* chunk rows.
C15_Witness ==
    \E k \in Calls :
        /\ Failed(k) /\ IsSearch(k) /\ BlankQuery(k)
        /\ request[k].query # <<>>
        /\ knowledge_base_chunks # {}

\* The rows of the tables the similarity search of call k could see.
VisibleTo(k) ==
    UNION {trace[k][i].arg : i \in {j \in CallsOf(k, "vector_similarity_search") :
                                       trace[k][j].outcome = "ok"}}

\* The rows among `rows` that pass the filter of search call k.
Passing(k, rows) ==
    {c \in rows : \/ request[k].threshold = None
                  \/ Score(c.embedding, query_embedding[k]) >= request[k].threshold[1]}

\* The hits call k returned are some of `rows` with their scores, without
\* repetition, in non-increasing score order, at most `limit` of them, and
\* no row of `rows` left out scores higher than a hit or was left out while
\* fewer than `limit` hits were returned.
TopOf(k, rows) ==
    LET hits == result[k].hits
        query == query_embedding[k]
        returned == {hits[i].id : i \in DOMAIN hits}
    IN  /\ \A i, j \in DOMAIN hits :
              i < j => /\ hits[i].similarity_score >= hits[j].similarity_score
                       /\ hits[i].id # hits[j].id
        /\ Len(hits) <= request[k].limit
        /\ \A i \in DOMAIN hits : \E c \in rows :
              /\ c.id = hits[i].id
              /\ c.content = hits[i].content
              /\ hits[i].similarity_score = Score(c.embedding, query)
        /\ Len(hits) = Min(request[k].limit, Cardinality(rows))
        /\ \A c \in rows : c.id \notin returned =>
              \A i \in DOMAIN hits :
                  hits[i].similarity_score >= Score(c.embedding, query)

FilteredFrom(k, rows) ==
    LET hits == result[k].hits
        query == query_embedding[k]
        threshold == request[k].threshold
    IN  IF threshold = None
        THEN Len(hits) = Min(request[k].limit, Cardinality(rows))
        ELSE /\ \A i \in DOMAIN hits : hits[i].similarity_score >= threshold[1]
             /\ Len(hits) = Min(request[k].limit,
                    Cardinality({c \in rows :
                        Score(c.embedding, query) >= threshold[1]}))

UnfilteredSearch(k) ==
    Succeeded(k) /\ IsSearch(k) /\ request[k].threshold = None

\* The similarity score 1.0 of call k's query vector with itself.
ScoreOfIdentical(k) == Score(query_embedding[k], query_embedding[k])

Chunked == chunked.state = "done"

\* C19: whatever the chunker (chunk_size > overlap >= 0) and the text, no
\* chunk chunk_text returns is longer than chunk_size characters.
C19_ChunkWithinSize ==
    Chunked =>
        \A i \in DOMAIN chunked.chunks :
            Len(chunked.chunks[i]) <= chunker.chunk_size

\* C19 witness: a text longer than chunk_size gave a chunk of exactly
\* chunk_size characters, which takes more than chunk_size bytes.
C19_Witness ==
    /\ Chunked
    /\ Len(chunked.text) > chunker.chunk_size
    /\ \E i \in DOMAIN chunked.chunks :
          /\ Len(chunked.chunks[i]) = chunker.chunk_size
          /\ ByteLen(chunked.chunks[i]) > chunker.chunk_size

\* The windows of the call whose trimmed text is not empty, in order.
KeptWindows ==
    SelectSeq(chunked.windows,
              LAMBDA w : Trim(Window(chunked.text, w.start, w.end)) # <<>>)

\* C20: the windows chunk_text takes cover the text with no gap: the first
\* starts at 0, the last ends at the length of the text, each later window
\* starts at or before the end of the one before it, and every character
\* position lies in a window; the chunks are the non-empty trimmed windows.
C20_WindowsCoverText ==
    Chunked =>
        LET windows == chunked.windows
            len == Len(chunked.text)
        IN  /\ (len = 0) = (windows = <<>>)
            /\ len > 0 =>
                  /\ windows[1].start = 0
                  /\ windows[Len(windows)].end = len
            /\ \A i \in 2..Len(windows) :
                  windows[i].start <= windows[i - 1].end
            /\ \A position \in 0..(len - 1) :
                  \E i \in DOMAIN windows :
                      /\ windows[i].start <= position
                      /\ position < windows[i].end
            /\ chunked.chunks =
                  [i \in DOMAIN KeptWindows |->
                      Trim(Window(chunked.text, KeptWindows[i].start,
                                  KeptWindows[i].end))]

\* C20 witness: three or more overlapping windows, the last one cut short by
\* the end of the text, and one of them blank and therefore not a chunk.
C20_Witness ==
    /\ Chunked
    /\ chunker.overlap > 0
    /\ Len(chunked.windows) >= 3
    /\ LET last == chunked.windows[Len(chunked.windows)]
       IN  last.end - last.start < chunker.chunk_size
    /\ Len(chunked.chunks) < Len(chunked.windows)
    /\ chunked.chunks # <<>>

\* t is what str::trim leaves of text: a contiguous part of it that neither
\* starts nor ends with whitespace, with nothing but whitespace around it.
IsTrimOf(t, text) ==
    \E first \in 1..(Len(text) + 1) :
        \E last \in 0..Len(text) :
            /\ t = SubSeq(text, first, last)
            /\ \A i \in 1..(first - 1) : IsWhitespace(text[i])
            /\ \A i \in (last + 1)..Len(text) : IsWhitespace(text[i])
            /\ t # <<>> => ~IsWhitespace(t[1]) /\ ~IsWhitespace(t[Len(t)])

\* C21: chunk_text of the empty text returns no chunk; chunk_text of a text
\* of at most chunk_size characters returns the trimmed text as its only
\* chunk, or no chunk when the text trims to empty.
C21_ShortTextOneChunk ==
    Chunked /\ Len(chunked.text) <= chunker.chunk_size =>
        /\ chunked.text = <<>> => chunked.chunks = <<>>
        /\ Len(chunked.chunks) <= 1
        /\ IsTrimOf(IF chunked.chunks = <<>> THEN <<>> ELSE chunked.chunks[1],
                    chunked.text)

\* C21 witness: a text of at most chunk_size characters with whitespace at
\* both ends came back as one chunk without it.
C21_Witness ==
    /\ Chunked
    /\ Len(chunked.text) <= chunker.chunk_size
    /\ Len(chunked.text) >= 3
    /\ IsWhitespace(chunked.text[1])
    /\ IsWhitespace(chunked.text[Len(chunked.text)])
    /\ Len(chunked.chunks) = 1
    /\ Len(chunked.chunks[1]) = Len(chunked.text) - 2

\* The window w of the call trims to empty.
Dropped(w) == Trim(Window(chunked.text, w.start, w.end)) = <<>>

\* C22: every chunk chunk_text returns is non-empty and neither starts nor
\* ends with whitespace; a window that trims to empty adds no chunk (the
\* chunks are the trimmed other windows, one each, in order) and the window
\* after it starts step = chunk_size - overlap characters after its start.
C22_BlankWindowsDropped ==
    Chunked =>
        LET windows == chunked.windows
            kept == KeptWindows
            step == chunker.chunk_size - chunker.overlap
        IN  /\ \A i \in DOMAIN chunked.chunks :
                  LET chunk == chunked.chunks[i]
                  IN  /\ chunk # <<>>
                      /\ ~IsWhitespace(chunk[1])
                      /\ ~IsWhitespace(chunk[Len(chunk)])
            /\ Len(chunked.chunks) = Len(kept)
            /\ \A i \in DOMAIN kept :
                  IsTrimOf(chunked.chunks[i],
                           Window(chunked.text, kept[i].start, kept[i].end))
            /\ \A i \in 1..(Len(windows) - 1) :
                  Dropped(windows[i]) =>
                      windows[i + 1].start = windows[i].start + step

\* C22 witness: with an overlap, a window that trims to empty lies between
\* two windows that gave chunks.
C22_Witness ==
    /\ Chunked
    /\ chunker.overlap > 0
    /\ Len(chunked.chunks) >= 2
    /\ \E i \in 2..(Len(chunked.windows) - 1) :
          /\ ~Dropped(chunked.windows[i - 1])
          /\ Dropped(chunked.windows[i])
          /\ ~Dropped(chunked.windows[i + 1])

\* A TextChunker::new call has run.
Constructed == chunker.state # "args"

\* C23: TextChunker::new produces no chunker when chunk_size = 0 or
\* overlap >= chunk_size, and produces one for every chunk_size > 0 with
\* 0 <= overlap < chunk_size; every chunker built has a step of at least 1.
C23_NewChecksConfiguration ==
    Constructed =>
        /\ (chunker.chunk_size = 0 \/ chunker.overlap >= chunker.chunk_size)
              => chunker.state = "panicked"
        /\ (chunker.chunk_size > 0 /\ 0 <= chunker.overlap
                /\ chunker.overlap < chunker.chunk_size)
              => chunker.state = "built"
        /\ chunker.state = "built"
              => chunker.chunk_size - chunker.overlap >= 1

\* C23 witness: a call with a positive chunk_size and an overlap equal to it
\* has panicked.
C23_Witness ==
    /\ chunker.state = "panicked"
    /\ chunker.chunk_size > 0
    /\ chunker.overlap = chunker.chunk_size

\* C27: chunk_text terminates: the windows start at 0, step, 2 * step, ...,
\* there are no more of them than characters, the loop stops at the first
\* window that ends at the length of the text (so that window is taken
\* once), and every later window ends beyond the end of the one before it.
C27_LoopStopsAtEnd ==
    Chunked =>
        LET windows == chunked.windows
            len == Len(chunked.text)
            step == chunker.chunk_size - chunker.overlap
        IN  /\ Len(windows) <= len
            /\ \A i \in DOMAIN windows :
                  /\ windows[i].start = (i - 1) * step
                  /\ (windows[i].end = len) = (i = Len(windows))
            /\ \A i \in 2..Len(windows) :
                  windows[i].end > windows[i - 1].end

\* C27 witness: the loop stopped after three or more windows although the
\* cursor, advanced once more, would still have been inside the text.
C27_Witness ==
    /\ Chunked
    /\ Len(chunked.windows) >= 3
    /\ LET last == chunked.windows[Len(chunked.windows)]
       IN  last.start + (chunker.chunk_size - chunker.overlap)
               < Len(chunked.text)

\* Call k is a direct call of the given method of the EmbeddingClient.
IsClientCall(k, method) == request[k].op = method

\* C24: embed_document called with an empty chunk list returns an error and
\* sends no request to the embedding server.
C24_EmptyChunkListRejected ==
    \A k \in Calls :
        IsClientCall(k, "embed_document") /\ request[k].chunks = <<>> =>
            /\ trace[k] = <<>>
            /\ Done(k)
            /\ result[k].state = "err"

\* C24 witness: embed_document was called with an empty chunk list.
C24_Witness ==
    \E k \in Calls :
        /\ IsClientCall(k, "embed_document")
        /\ request[k].chunks = <<>>
        /\ Failed(k)

\* The operations that send one HTTP request to the embedding server: the
\* three methods called directly, and the two the pipeline calls.
HttpOps ==
    {"POST /embed", "POST /embed_query", "GET /health",
     "embed_document", "embed_query"}

\* The positions of the HTTP requests in the trace of call k.
HttpRequests(k) == {i \in DOMAIN trace[k] : trace[k][i].op \in HttpOps}

\* C25: no retries.  A call of embed_document, embed_query or health sends
\* at most one HTTP request, and so does an ingest or a search; a failed
\* collaborator call is the last one its call makes, is never made again,
\* and ends the call with an error, as does a body that cannot be parsed.
C25_NoRetries ==
    \A k \in Calls :
        LET log == trace[k] IN
        /\ Cardinality(HttpRequests(k)) <= 1
        /\ request[k].op \in {"embed_document", "embed_query", "health"}
              => Len(log) <= 1
        /\ \A i \in DOMAIN log :
              log[i].outcome # "ok" =>
                  /\ i = Len(log)
                  /\ Failed(k)
        /\ \A i, j \in DOMAIN log :
              i < j /\ log[i].op = log[j].op => log[i].outcome = "ok"
        /\ Failed(k) /\ result[k].cause = "http" => HttpRequests(k) # {}

\* C25 witness: a direct call failed on a body that could not be parsed
\* after its only request, and an ingest failed at its only embed_document.
C25_Witness ==
    \E k, j \in Calls :
        /\ request[k].op \in {"embed_document", "embed_query", "health"}
        /\ Failed(k)
        /\ Len(trace[k]) = 1
        /\ trace[k][1].outcome = "ok"
        /\ IsIngest(j)
        /\ Failed(j)
        /\ trace[j][Len(trace[j])].op = "embed_document"
        /\ trace[j][Len(trace[j])].outcome = "error"

\* The last admin call has returned and no round trip of it failed.
AdminReturned(finished) == finished.op # "none" /\ finished.cause # "sqlx"

\* The last two admin calls were the given function on one name, the first
\* of them successful, and no round trip of the second failed.
Twice(op) ==
    /\ admin.prev.op = op
    /\ admin.prev.state = "ok"
    /\ admin.last.op = op
    /\ admin.last.name = admin.prev.name
    /\ AdminReturned(admin.last)

\* C26: called one after another, create_database on a database that exists
\* returns Ok and leaves it present, and drop_database on a database that
\* does not exist returns Ok and leaves it absent: a create after a create
\* and a drop after a drop succeed, database_exists holds after a create and
\* does not hold after a drop.
C26_LifecycleIdempotent ==
    admin.pc = "idle" /\ AdminReturned(admin.last) =>
        LET last == admin.last IN
        /\ last.op = "create_database" /\ last.existed =>
              last.state = "ok" /\ Exists(last.name)
        /\ last.op = "drop_database" /\ ~last.existed =>
              last.state = "ok" /\ ~Exists(last.name)
        /\ Twice("create_database") => last.state = "ok"
        /\ Twice("drop_database") => last.state = "ok"
        /\ last.op = "create_database" /\ last.state = "ok" => Exists(last.name)
        /\ last.op = "drop_database" /\ last.state = "ok" => ~Exists(last.name)

\* Ingest k got past the duplicate check and the chunking with chunks to
\* embed, and its embed_document call has been made.
ReachedEmbedding(k) ==
    /\ IsIngest(k)
    /\ pc[k] \in {"insert_chunk", "done"}
    /\ \E i \in CallsOf(k, "insert_document") : trace[k][i].outcome = "ok"
    /\ ChunksOf(k) # <<>>

\* C28: a non-duplicate ingest that reaches the embedding step makes exactly
\* one embed_document call; its single request carries all chunks of the
\* document in chunker order as one document; the call comes after
\* insert_document has returned and before the first insert_chunk.
C28_OneEmbeddingCallPerDocument ==
    \A k \in Calls :
        LET log == trace[k]
            embeds == CallsOf(k, "embed_document")
            inserts == CallsOf(k, "insert_chunk")
        IN  /\ Cardinality(embeds) <= 1
            /\ ReachedEmbedding(k) => Cardinality(embeds) = 1
            /\ inserts # {} => embeds # {}
            /\ \A i \in embeds :
                  /\ log[i].sent = <<ChunksOf(k)>>
                  /\ i > 1
                  /\ log[i - 1].op = "insert_document"
                  /\ log[i - 1].outcome = "ok"
                  /\ \A j \in inserts : j > i

\* C28 witness: an ingest of three chunks made its one embed_document call,
\* with the three chunks, between insert_document and three insert_chunk calls.
C28_Witness ==
    \E k \in Calls :
        /\ Succeeded(k) /\ IsIngest(k)
        /\ Len(ChunksOf(k)) = 3
        /\ Cardinality(CallsOf(k, "insert_chunk")) = 3
        /\ \E i \in CallsOf(k, "embed_document") :
              /\ Len(trace[k][i].sent[1]) = 3
              /\ trace[k][i + 1].op = "insert_chunk"

\* Ingest k failed after its insert_document had succeeded.
FailedAfterInsert(k) ==
    /\ IsIngest(k)
    /\ Failed(k)
    /\ \E i \in CallsOf(k, "insert_document") : trace[k][i].outcome = "ok"

\* The document row ingest k inserted is in the store, the chunk rows of the
\* document are those k inserted before it failed, and every later ingest of
\* the same content that has returned reported the duplicate (unless a round
\* trip of it failed) and called neither insert_document nor insert_chunk.
NeverRepaired(k) ==
    /\ \E d \in knowledge_base_documents :
          d.id = document_id[k] /\ d.content_hash = content_hash[k]
    /\ Cardinality(ChunkRowsOf(k)) =
          Cardinality({i \in CallsOf(k, "insert_chunk") : trace[k][i].outcome = "ok"})
    /\ \A j \in (k + 1)..MaxCalls :
          Done(j) /\ IsIngest(j)
                  /\ request[j].raw_content = request[k].raw_content =>
              /\ \/ result[j] = OkIngest(document_id[k], 0, TRUE)
                 \/ RoundTripFailed(j)
              /\ CallsOf(j, "insert_document") = {}
              /\ CallsOf(j, "insert_chunk") = {}

\* C29 as stated: after an ingest failed past its insert_document, the
\* document row stays, every later ingest of the same content returns
\* was_duplicate = true with chunks_inserted = 0 and inserts no chunk, and the
\* document keeps fewer chunk rows than its total_chunks.
C29_NeverRepairedAsStated ==
    \A k \in Calls :
        FailedAfterInsert(k) =>
            /\ NeverRepaired(k)
            /\ Cardinality(ChunkRowsOf(k)) < Len(ChunksOf(k))

\* C29 amended: the same, where the document keeps fewer chunk rows than it
\* has chunks when it has chunks, and none when its chunker output is empty
\* (it then has all of its zero chunks).
C29_NeverRepaired ==
    \A k \in Calls :
        FailedAfterInsert(k) =>
            /\ NeverRepaired(k)
            /\ IF ChunksOf(k) = <<>>
               THEN ChunkRowsOf(k) = {}
               ELSE Cardinality(ChunkRowsOf(k)) < Len(ChunksOf(k))

\* C29 witness: an ingest failed at an insert_chunk after one chunk row was
\* written, and a later ingest of the same content returned the duplicate.
C29_Witness ==
    \E k, j \in Calls :
        /\ k < j
        /\ FailedAfterInsert(k)
        /\ Cardinality(ChunkRowsOf(k)) = 1
        /\ IsIngest(j)
        /\ request[j].raw_content = request[k].raw_content
        /\ result[j] = OkIngest(document_id[k], 0, TRUE)

\* The positions (from 1) of the chunks of call k whose text is the text of
\* a chunk row present when the call started, or of an earlier chunk of the
\* same call.
Conflicts(k) ==
    LET cs == ChunksOf(k) IN
    {i \in DOMAIN cs :
        \/ \E c \in at_start[k].chunks : c.content_hash = compute_sha256(cs[i])
        \/ \E j \in 1..(i - 1) : cs[j] = cs[i]}

\* The first of them.
FirstConflict(k) == CHOOSE i \in Conflicts(k) : \A j \in Conflicts(k) : i <= j

\* C30: with one caller, the ingest of a new document whose chunker output
\* has a chunk text that is already in the store, or has a chunk text twice,
\* returns an error at the insert_chunk of the first such chunk (unless a
\* round trip or the gateway fails before); the document row and the chunk
\* rows inserted before it stay in the store and no later chunk is inserted.
C30_ChunkConflictFailsIngest ==
    \A k \in Calls :
        ( /\ Done(k) /\ IsIngest(k)
          /\ NewDocument(k)
          /\ Conflicts(k) # {}
          /\ ~RoundTripFailed(k)
          /\ ~GatewayMisbehaved(k) )
        => LET n == FirstConflict(k) - 1
               last == trace[k][Len(trace[k])]
           IN  /\ ChunkRejected(k)
               /\ last.op = "insert_chunk"
               /\ last.outcome = "rejected"
               /\ last.arg.chunk_index = n
               /\ last.arg.content = ChunksOf(k)[n + 1]
               /\ \E d \in knowledge_base_documents :
                     d.id = document_id[k] /\ d.content_hash = content_hash[k]
               /\ {c.chunk_index : c \in ChunkRowsOf(k)} = 0..(n - 1)
               /\ Cardinality(ChunkRowsOf(k)) = n

\* C30 witness: an ingest was refused at its second chunk, a repetition of
\* its first, whose row is in the store.
C30_Witness ==
    \E k \in Calls :
        /\ Done(k) /\ IsIngest(k) /\ NewDocument(k)
        /\ ChunkRejected(k)
        /\ FirstConflict(k) = 2
        /\ Cardinality(ChunkRowsOf(k)) = 1

====
